---- MODULE Spec2Model ----
(***************************************************************************)
(* Model of src/registers/model_specific.rs: the typed accessors of the    *)
(* x86-64 model specific registers EFER, STAR and SFMASK over the raw      *)
(* rdmsr / wrmsr primitive.                                                *)
(*                                                                         *)
(* A 64-bit register value is the set of its set bit positions (0..63);    *)
(* 16-bit selectors are integers 0..65535 with the arithmetic of u16.      *)
(***************************************************************************)
EXTENDS Integers, FiniteSets, Sequences, TLC

VARIABLES
    overflow_checks, \* build profile: TRUE = integer overflow panics, FALSE = wraps
    msr,             \* the core's model specific registers: address -> 64-bit value
    args,            \* the selector quadruple the caller holds for Star::write
    call,            \* the last completed call: [op, arg, ret]
    last_ok,         \* history: arguments of the last successful Star::write
    pc,              \* per execution context: position inside Efer::update / Efer::write
    local            \* per execution context: the locals flags and old_value

vars == <<overflow_checks, msr, args, call, last_ok, pc, local>>

(***************************************************************************)
(* Bounds of the model.                                                    *)
(***************************************************************************)
MaxIndex == 5        \* descriptor table indices 0..MaxIndex of the selectors tried
MaxSeqIndex == 3     \* the same, for the selectors tried in sequences of writes
LowSpan == 1         \* raw Star bases 0..LowSpan
TopSpan == 1         \* raw Star bases up to TopSpan above 65535 - 16 and 65535 - 8
MaxSetBits == 2      \* raw test values have at most this many probe bits set (or cleared)
NumContexts == 2     \* execution contexts sharing the core's EFER

(***************************************************************************)
(* Machine integers.                                                       *)
(***************************************************************************)
U16_MAX == 65535
U64Bits == 0..63

\* The bit positions set in the w-bit integer n.
BitsOf(n, w) == {i \in 0..(w - 1) : (n \div (2 ^ i)) % 2 = 1}

RECURSIVE SumBits(_, _)
SumBits(S, i) == IF i < 0 THEN 0
                 ELSE (IF i \in S THEN 2 ^ i ELSE 0) + SumBits(S, i - 1)

\* The integer whose set bits are S (S within 0..15).
ValueOf(S) == SumBits(S, 15)

\* bit_field::BitField::get_bits(lo..hi) on a u64
get_bits(v, lo, hi) == ValueOf({b - lo : b \in {x \in v : x >= lo /\ x < hi}})

\* bit_field::BitField::set_bits(lo..hi, n) on a u64
set_bits(v, lo, hi, n) ==
    {x \in v : x < lo \/ x >= hi} \cup {b + lo : b \in BitsOf(n, hi - lo)}

\* u16 + u16 and u16 - u16 as the build computes them: a panic when overflow
\* checks are compiled in, the result modulo 2^16 otherwise.
u16_add(a, b, oc) ==
    IF a + b <= U16_MAX THEN [ok |-> TRUE, v |-> a + b]
    ELSE IF oc THEN [ok |-> FALSE, v |-> 0]
    ELSE [ok |-> TRUE, v |-> a + b - (U16_MAX + 1)]

u16_sub(a, b, oc) ==
    IF a >= b THEN [ok |-> TRUE, v |-> a - b]
    ELSE IF oc THEN [ok |-> FALSE, v |-> 0]
    ELSE [ok |-> TRUE, v |-> a + (U16_MAX + 1) - b]

(***************************************************************************)
(* Results of a call.                                                      *)
(***************************************************************************)
Ok(v) == [kind |-> "Ok", val |-> v]
Err(m) == [kind |-> "Err", val |-> m]
Panic(m) == [kind |-> "Panic", val |-> m]
NoCall == [op |-> "none", arg |-> <<>>, ret |-> [kind |-> "None", val |-> <<>>]]

\* A panic ends the program: the panic handler of the kernel never returns.
Running == call.ret.kind # "Panic"

(***************************************************************************)
(* The registers and the raw access primitive.                             *)
(***************************************************************************)
Efer_MSR == "C0000080"
FsBase_MSR == "C0000100"
GsBase_MSR == "C0000101"
KernelGsBase_MSR == "C0000102"
Star_MSR == "C0000081"
LStar_MSR == "C0000082"
SFMask_MSR == "C0000084"

Registers == {Efer_MSR, FsBase_MSR, GsBase_MSR, KernelGsBase_MSR,
              Star_MSR, LStar_MSR, SFMask_MSR}

\* Msr::read: rdmsr gives the halves in edx:eax, joined as (high << 32) | low
Msr_read(m, reg) ==
    LET low == {b \in m[reg] : b < 32}
        high == {b - 32 : b \in {x \in m[reg] : x >= 32}}
    IN  {b + 32 : b \in high} \cup low

\* Msr::write: the value is split into eax = value as u32, edx = value >> 32
Msr_write(m, reg, value) ==
    LET low == {b \in value : b < 32}
        high == {b - 32 : b \in {x \in value : x >= 32}}
    IN  [m EXCEPT ![reg] = {b + 32 : b \in high} \cup low]

(***************************************************************************)
(* Star                                                                    *)
(***************************************************************************)
\* SegmentSelector::rpl(): the requested privilege level, bits 0..1
rpl(sel) == sel % 4
Ring0 == 0
Ring3 == 3

\* Star::read_raw
Star_read_raw(m) ==
    LET msr_value == Msr_read(m, Star_MSR)
        sysret == get_bits(msr_value, 48, 64)
        syscall == get_bits(msr_value, 32, 48)
    IN  <<sysret, syscall>>

\* Star::read deriving the sysret code selector with the offset of the stack selector
Star_read_offset8(m, oc) ==
    LET raw == Star_read_raw(m)
        cs_sysret == u16_add(raw[1], 8, oc)
        ss_sysret == u16_add(raw[1], 8, oc)
        ss_syscall == u16_add(raw[2], 8, oc)
    IN  IF ~cs_sysret.ok \/ ~ss_sysret.ok \/ ~ss_syscall.ok
        THEN Panic("attempt to add with overflow")
        ELSE Ok(<<cs_sysret.v, ss_sysret.v, raw[2], ss_syscall.v>>)

\* Star::read, given the build's overflow behaviour
Star_read(m, oc) ==
    LET raw == Star_read_raw(m)
        cs_sysret == u16_add(raw[1], 16, oc)
        ss_sysret == u16_add(raw[1], 8, oc)
        ss_syscall == u16_add(raw[2], 8, oc)
    IN  IF ~cs_sysret.ok \/ ~ss_sysret.ok \/ ~ss_syscall.ok
        THEN Panic("attempt to add with overflow")
        ELSE Ok(<<cs_sysret.v, ss_sysret.v, raw[2], ss_syscall.v>>)

\* Star::write_raw starting from the register's content instead of 0
Star_write_raw_keep(m, sysret, syscall) ==
    LET v0 == Msr_read(m, Star_MSR)
        v1 == set_bits(v0, 48, 64, sysret)
        v2 == set_bits(v1, 32, 48, syscall)
    IN  Msr_write(m, Star_MSR, v2)

\* Star::write_raw
Star_write_raw(m, sysret, syscall) ==
    LET v0 == {}
        v1 == set_bits(v0, 48, 64, sysret)
        v2 == set_bits(v1, 32, 48, syscall)
    IN  Msr_write(m, Star_MSR, v2)

ErrSysretOffset == "Sysret CS and SS is not offset by 8."
ErrSyscallOffset == "Syscall CS and SS is not offset by 8."
ErrSysretRing == "Sysret's segment must be a Ring3 segment."
ErrSyscallRing == "Syscall's segment must be a Ring0 segment."
SubOverflow == "attempt to subtract with overflow"

\* Star::write: the result and the registers after the call
Star_write(m, q, oc) ==
    LET cs_sysret == q[1]
        ss_sysret == q[2]
        cs_syscall == q[3]
        ss_syscall == q[4]
        l1 == u16_sub(cs_sysret, 16, oc)
        r1 == u16_sub(ss_sysret, 8, oc)
        r2 == u16_sub(ss_syscall, 8, oc)
    IN  IF ~l1.ok \/ ~r1.ok THEN [ret |-> Panic(SubOverflow), msr |-> m]
        ELSE IF l1.v # r1.v THEN [ret |-> Err(ErrSysretOffset), msr |-> m]
        ELSE IF ~r2.ok THEN [ret |-> Panic(SubOverflow), msr |-> m]
        ELSE IF cs_syscall # r2.v THEN [ret |-> Err(ErrSyscallOffset), msr |-> m]
        ELSE IF rpl(ss_sysret) # Ring3 THEN [ret |-> Err(ErrSysretRing), msr |-> m]
        ELSE IF rpl(ss_syscall) # Ring0 THEN [ret |-> Err(ErrSyscallRing), msr |-> m]
        ELSE [ret |-> Ok(<<>>), msr |-> Star_write_raw(m, r1.v, cs_syscall)]

(***************************************************************************)
(* Efer                                                                    *)
(***************************************************************************)
SYSTEM_CALL_EXTENSIONS == 0
LONG_MODE_ENABLE == 8
LONG_MODE_ACTIVE == 10
NO_EXECUTE_ENABLE == 11
SECURE_VIRTUAL_MACHINE_ENABLE == 12
LONG_MODE_SEGMENT_LIMIT_ENABLE == 13
FAST_FXSAVE_FXRSTOR == 14
TRANSLATION_CACHE_EXTENSION == 15

\* EferFlags::all().bits()
EferFlags_all ==
    {SYSTEM_CALL_EXTENSIONS, LONG_MODE_ENABLE, LONG_MODE_ACTIVE, NO_EXECUTE_ENABLE,
     SECURE_VIRTUAL_MACHINE_ENABLE, LONG_MODE_SEGMENT_LIMIT_ENABLE,
     FAST_FXSAVE_FXRSTOR, TRANSLATION_CACHE_EXTENSION}

\* EferFlags::from_bits_truncate
EferFlags_from_bits_truncate(bits) == bits \cap EferFlags_all

\* Efer::read_raw
Efer_read_raw(m) == Msr_read(m, Efer_MSR)

\* Efer::read
Efer_read(m) == EferFlags_from_bits_truncate(Efer_read_raw(m))

\* Efer::write_raw
Efer_write_raw(m, flags) == Msr_write(m, Efer_MSR, flags)

\* Efer::write without the mask: old_value | flags.bits()
Efer_new_value_unmasked(old_value, flags) == old_value \cup flags

\* Efer::write without the reserved bits: flags.bits() alone
Efer_new_value_flags_only(old_value, flags) == flags

\* the value Efer::write stores: reserved | flags.bits()
Efer_new_value(old_value, flags) ==
    LET reserved == old_value \ EferFlags_all
    IN  reserved \cup flags

\* Efer::write
Efer_write(m, flags) ==
    LET old_value == Efer_read_raw(m)
    IN  Efer_write_raw(m, Efer_new_value(old_value, flags))

\* The caller's closure f: FnOnce(&mut EferFlags), one of the bitflags mutators.
Apply(f, flags) ==
    CASE f.kind = "insert" -> flags \cup f.flags
      [] f.kind = "remove" -> flags \ f.flags
      [] f.kind = "toggle" -> (flags \ f.flags) \cup (f.flags \ flags)

\* Efer::update storing the flags with write_raw
Efer_update_raw(m, f) ==
    LET flags == Efer_read(m)
    IN  Efer_write_raw(m, Apply(f, flags))

\* Efer::update
Efer_update(m, f) ==
    LET flags == Efer_read(m)
    IN  Efer_write(m, Apply(f, flags))

(***************************************************************************)
(* SFMask                                                                  *)
(***************************************************************************)
\* RFlags::all().bits(): the flag bits the RFlags type defines
RFlags_all == {0, 2, 4, 6, 7, 8, 9, 10, 11, 12, 13, 14, 16, 17, 18, 19, 20, 21}

UnwrapNone == "called Option::unwrap() on a None value"

\* SFMask::read decoding with from_bits_truncate
SFMask_read_truncate(m) == Ok(Msr_read(m, SFMask_MSR) \cap RFlags_all)

\* SFMask::read: RFlags::from_bits(..).unwrap()
SFMask_read(m) ==
    LET bits == Msr_read(m, SFMask_MSR)
    IN  IF bits \subseteq RFlags_all THEN Ok(bits) ELSE Panic(UnwrapNone)

\* SFMask::write
SFMask_write(m, value) == Msr_write(m, SFMask_MSR, value)

(***************************************************************************)
(* Inputs tried.                                                           *)
(***************************************************************************)
\* SegmentSelector::new(index, rpl)
SegmentSelector_new(index, r) == index * 8 + r

Selectors ==
    {SegmentSelector_new(i, r) : i \in (0..MaxIndex) \cup {8191}, r \in {Ring0, Ring3}}

Quads == Selectors \X Selectors \X Selectors \X Selectors

SeqSelectors ==
    {SegmentSelector_new(i, r) : i \in (0..MaxSeqIndex) \cup {8191}, r \in {Ring0, Ring3}}

SeqQuads == SeqSelectors \X SeqSelectors \X SeqSelectors \X SeqSelectors

\* low bases, the bases 8 and 27, and the bases around which base + 8 and
\* base + 16 leave the 16 bits
RawBases ==
    (0..LowSpan) \cup {8, 27, U16_MAX}
    \cup {U16_MAX - 16 + j : j \in 0..TopSpan} \cup {U16_MAX - 8 + j : j \in 0..TopSpan}

\* 0xFFFF_FFFF_0000_0100
ExampleEfer == {8} \cup (32..63)

ProbeBits == {0, 1, 8, 9, 10, 15, 16, 32, 63}

RawValues ==
    LET few == {S \in SUBSET ProbeBits : Cardinality(S) <= MaxSetBits}
    IN  few \cup {U64Bits \ S : S \in few} \cup {ExampleEfer}

\* sysret base 27, syscall base 8, bits 0 and 31 set
StarPrior == {0, 31, 35, 48, 49, 51, 52}

StarPriors == {{}, U64Bits, StarPrior}

FlagChoices == {{}, {0}, {8}, {11}, {0, 8}, {8, 10, 11}, EferFlags_all}

RFlagsChoices == {{}, {9}, {8, 9, 10}, {0, 2, 4, 6, 7, 11}, RFlags_all}

Transforms == [kind : {"insert", "remove", "toggle"}, flags : {{0}, {11}, {8, 10}}]

Contexts == 1..NumContexts

ZeroMsr == [r \in Registers |-> {}]
IdlePc == [c \in Contexts |-> "idle"]
NoLocal == [c \in Contexts |-> [flags |-> {}, old_value |-> {}]]
NoArgs == <<0, 0, 0, 0>>

(***************************************************************************)
(* Calls on one execution context, each a whole call.                      *)
(***************************************************************************)
Sequential == UNCHANGED <<overflow_checks, pc, local>>

Call_Star_read_raw ==
    /\ Running
    /\ call' = [op |-> "Star::read_raw", arg |-> <<>>, ret |-> Ok(Star_read_raw(msr))]
    /\ UNCHANGED <<msr, args, last_ok>>
    /\ Sequential

Call_Star_read ==
    /\ Running
    /\ call' = [op |-> "Star::read", arg |-> <<>>, ret |-> Star_read(msr, overflow_checks)]
    /\ UNCHANGED <<msr, args, last_ok>>
    /\ Sequential

Call_Star_write_raw ==
    /\ Running
    /\ \E a \in RawBases, b \in RawBases :
          /\ msr' = Star_write_raw(msr, a, b)
          /\ call' = [op |-> "Star::write_raw", arg |-> <<a, b>>, ret |-> Ok(<<>>)]
    /\ UNCHANGED <<args, last_ok>>
    /\ Sequential

\* Star::write with the quadruple the caller holds
Call_Star_write ==
    /\ Running
    /\ LET out == Star_write(msr, args, overflow_checks)
       IN  /\ msr' = out.msr
           /\ call' = [op |-> "Star::write", arg |-> args, ret |-> out.ret]
           /\ last_ok' = IF out.ret.kind = "Ok" THEN args ELSE last_ok
    /\ UNCHANGED args
    /\ Sequential

\* Star::write with any quadruple; only a successful one is remembered
Call_Star_write_any ==
    /\ Running
    /\ \E q \in SeqQuads :
          LET out == Star_write(msr, q, overflow_checks)
          IN  /\ msr' = out.msr
              /\ call' = [op |-> "Star::write", arg |-> <<>>, ret |-> out.ret]
              /\ last_ok' = IF out.ret.kind = "Ok" THEN q ELSE last_ok
    /\ UNCHANGED args
    /\ Sequential

Call_Efer_read_raw ==
    /\ Running
    /\ call' = [op |-> "Efer::read_raw", arg |-> <<>>, ret |-> Ok(Efer_read_raw(msr))]
    /\ UNCHANGED <<msr, args, last_ok>>
    /\ Sequential

Call_Efer_read ==
    /\ Running
    /\ call' = [op |-> "Efer::read", arg |-> <<>>, ret |-> Ok(Efer_read(msr))]
    /\ UNCHANGED <<msr, args, last_ok>>
    /\ Sequential

Call_Efer_write ==
    /\ Running
    /\ \E flags \in FlagChoices :
          /\ msr' = Efer_write(msr, flags)
          /\ call' = [op |-> "Efer::write", arg |-> flags, ret |-> Ok(<<>>)]
    /\ UNCHANGED <<args, last_ok>>
    /\ Sequential

Call_Efer_update ==
    /\ Running
    /\ \E f \in Transforms :
          /\ msr' = Efer_update(msr, f)
          /\ call' = [op |-> "Efer::update", arg |-> f, ret |-> Ok(<<>>)]
    /\ UNCHANGED <<args, last_ok>>
    /\ Sequential

Call_SFMask_read ==
    /\ Running
    /\ call' = [op |-> "SFMask::read", arg |-> <<>>, ret |-> SFMask_read(msr)]
    /\ UNCHANGED <<msr, args, last_ok>>
    /\ Sequential

Call_SFMask_write ==
    /\ Running
    /\ \E value \in RFlagsChoices :
          /\ msr' = SFMask_write(msr, value)
          /\ call' = [op |-> "SFMask::write", arg |-> value, ret |-> Ok(<<>>)]
    /\ UNCHANGED <<args, last_ok>>
    /\ Sequential

(***************************************************************************)
(* Efer::update and Efer::write on several execution contexts of one core, *)
(* one register access per step.                                           *)
(***************************************************************************)
ConcFlags == {{0}}
ConcTransforms == {[kind |-> "insert", flags |-> {11}]}

\* Efer::update up to and including its Self::read() and the closure
Step_update_read(c) ==
    /\ pc[c] = "idle"
    /\ \E f \in ConcTransforms :
          local' = [local EXCEPT ![c].flags = Apply(f, Efer_read(msr))]
    /\ pc' = [pc EXCEPT ![c] = "write"]
    /\ UNCHANGED <<overflow_checks, msr, args, call, last_ok>>

\* Efer::write, entered from update: let old_value = Self::read_raw()
Step_write_read_raw(c) ==
    /\ pc[c] = "write"
    /\ local' = [local EXCEPT ![c].old_value = Efer_read_raw(msr)]
    /\ pc' = [pc EXCEPT ![c] = "write_raw"]
    /\ UNCHANGED <<overflow_checks, msr, args, call, last_ok>>

\* Efer::write called directly, up to and including Self::read_raw()
Step_write_enter(c) ==
    /\ pc[c] = "idle"
    /\ \E flags \in ConcFlags :
          local' = [local EXCEPT ![c] = [flags |-> flags, old_value |-> Efer_read_raw(msr)]]
    /\ pc' = [pc EXCEPT ![c] = "write_raw"]
    /\ UNCHANGED <<overflow_checks, msr, args, call, last_ok>>

\* Efer::write: Self::write_raw(reserved | flags.bits())
Step_write_raw(c) ==
    /\ pc[c] = "write_raw"
    /\ msr' = Efer_write_raw(msr, Efer_new_value(local[c].old_value, local[c].flags))
    /\ pc' = [pc EXCEPT ![c] = "idle"]
    /\ UNCHANGED <<overflow_checks, args, call, last_ok, local>>

(***************************************************************************)
(* Specifications.                                                         *)
(***************************************************************************)
InitCommon ==
    /\ overflow_checks \in BOOLEAN
    /\ call = NoCall
    /\ last_ok = <<>>
    /\ pc = IdlePc
    /\ local = NoLocal

\* Star::write, Star::read_raw and Star::read on one caller-held quadruple
InitStar ==
    /\ InitCommon
    /\ args \in Quads
    /\ msr = [ZeroMsr EXCEPT ![Star_MSR] = StarPrior]

NextStar == Call_Star_write \/ Call_Star_read_raw \/ Call_Star_read

SpecStar == InitStar /\ [][NextStar]_vars

\* the raw Star accessors on any prior content
InitStarRaw ==
    /\ InitCommon
    /\ args = NoArgs
    /\ \E v \in StarPriors : msr = [ZeroMsr EXCEPT ![Star_MSR] = v]

NextStarRaw == Call_Star_write_raw \/ Call_Star_read_raw \/ Call_Star_read

SpecStarRaw == InitStarRaw /\ [][NextStarRaw]_vars

\* sequences of validated writes
InitStarSeq ==
    /\ InitCommon
    /\ args = NoArgs
    /\ \E v \in StarPriors : msr = [ZeroMsr EXCEPT ![Star_MSR] = v]

NextStarSeq == Call_Star_write_any \/ Call_Star_read_raw \/ Call_Star_read

SpecStarSeq == InitStarSeq /\ [][NextStarSeq]_vars

\* the EFER accessors, each call whole
InitEfer ==
    /\ InitCommon
    /\ args = NoArgs
    /\ \E v \in RawValues : msr = [ZeroMsr EXCEPT ![Efer_MSR] = v]

NextEfer == Call_Efer_write \/ Call_Efer_update \/ Call_Efer_read \/ Call_Efer_read_raw

SpecEfer == InitEfer /\ [][NextEfer]_vars

\* one raw bit pattern in EFER and in SFMASK, decoded by both readers
InitDecode ==
    /\ InitCommon
    /\ args = NoArgs
    /\ \E v \in RawValues : msr = [ZeroMsr EXCEPT ![Efer_MSR] = v, ![SFMask_MSR] = v]

NextDecode == Call_SFMask_read \/ Call_SFMask_write \/ Call_Efer_read \/ Call_Efer_read_raw

SpecDecode == InitDecode /\ [][NextDecode]_vars

\* interleaved Efer::update and Efer::write
InitEferConc ==
    /\ InitCommon
    /\ args = NoArgs
    /\ \E v \in {ExampleEfer, {0, 1, 9, 63}, {}, U64Bits} :
          msr = [ZeroMsr EXCEPT ![Efer_MSR] = v]

NextEferConc ==
    \E c \in Contexts :
        \/ Step_update_read(c)
        \/ Step_write_read_raw(c)
        \/ Step_write_enter(c)
        \/ Step_write_raw(c)

SpecEferConc == InitEferConc /\ [][NextEferConc]_vars

Init == InitStarRaw
Next == NextStarRaw
Spec == SpecStarRaw

(***************************************************************************)
(* The claims.                                                             *)
(***************************************************************************)
\* The four Star checks of a quadruple, over the integers.
SysretOffsetOk(q) == q[1] - 16 = q[2] - 8
SyscallOffsetOk(q) == q[3] = q[4] - 8
SysretRingOk(q) == q[2] % 4 = 3
SyscallRingOk(q) == q[4] % 4 = 0
FourChecks(q) == SysretOffsetOk(q) /\ SyscallOffsetOk(q) /\ SysretRingOk(q) /\ SyscallRingOk(q)

NamedMask == {0, 8, 10, 11, 12, 13, 14, 15}
StarBefore == [ZeroMsr EXCEPT ![Star_MSR] = StarPrior]

\* C1: Star::write succeeds on every quadruple that satisfies the four Star
\* checks, and a Star::read after it returns the quadruple.
C1_ValidatedRoundTrip ==
    FourChecks(args) =>
        /\ call.op = "Star::write" => call.ret = Ok(<<>>)
        /\ (call.op = "Star::read" /\ last_ok = args) => call.ret = Ok(args)

\* The error of the first violated check, in the fixed order; success when none is.
FirstViolated(q) ==
    IF ~SysretOffsetOk(q) THEN Err(ErrSysretOffset)
    ELSE IF ~SyscallOffsetOk(q) THEN Err(ErrSyscallOffset)
    ELSE IF ~SysretRingOk(q) THEN Err(ErrSysretRing)
    ELSE IF ~SyscallRingOk(q) THEN Err(ErrSyscallRing)
    ELSE Ok(<<>>)

\* C2: for every quadruple, Star::write returns success or the validation
\* error of the first check the quadruple violates.
C2_FirstFailingCheck == call.op = "Star::write" => call.ret = FirstViolated(args)

\* C3: a quadruple that violates a check gets an error and leaves every
\* register as it was; the register is written only with the bases
\* ss_sysret - 8 and cs_syscall of a quadruple that passes all four checks.
C3_NothingStoredUnlessValid ==
    /\ (call.op = "Star::write" /\ ~FourChecks(args)) =>
          (call.ret.kind = "Err" /\ msr = StarBefore)
    /\ msr # StarBefore =>
          (FourChecks(args) /\ Star_read_raw(msr) = <<args[2] - 8, args[3]>>)

\* C4 as claimed: Star::read succeeds on every register content and returns
\* (sysret_base + 16, sysret_base + 8, syscall_base, syscall_base + 8).
C4_ReadAlwaysSucceeds ==
    call.op = "Star::read" =>
        LET raw == Star_read_raw(msr)
        IN  call.ret = Ok(<<raw[1] + 16, raw[1] + 8, raw[2], raw[2] + 8>>)

\* C4 as amended: Star::read returns (sysret_base + 16, sysret_base + 8,
\* syscall_base, syscall_base + 8) when sysret_base <= 65519 and
\* syscall_base <= 65527; on larger bases it panics in a build with overflow
\* checks and returns the sums modulo 2^16 otherwise.
C4_ReadDerivation ==
    call.op = "Star::read" =>
        LET raw == Star_read_raw(msr)
        IN  IF raw[1] <= 65519 /\ raw[2] <= 65527
            THEN call.ret = Ok(<<raw[1] + 16, raw[1] + 8, raw[2], raw[2] + 8>>)
            ELSE IF overflow_checks
            THEN call.ret.kind = "Panic"
            ELSE call.ret = Ok(<<(raw[1] + 16) % 65536, (raw[1] + 8) % 65536,
                                 raw[2], (raw[2] + 8) % 65536>>)

C4_Witness ==
    /\ call.op = "Star::read"
    /\ call.ret = Ok(<<65535, 65527, 65527, 65535>>)

\* a written in bits 48-63, b in bits 32-47, bits 0-31 zero
Packed(a, b) ==
    {48 + i : i \in {j \in 0..15 : (a \div (2 ^ j)) % 2 = 1}}
    \cup {32 + i : i \in {j \in 0..15 : (b \div (2 ^ j)) % 2 = 1}}

\* C5: after Star::write_raw(a, b) the register is exactly a in bits 48-63,
\* b in bits 32-47 and zero in bits 0-31, whatever it held before, and a
\* Star::read_raw performed next returns (a, b).
C5_RawRoundTrip ==
    [][/\ call'.op = "Star::write_raw" =>
             msr'[Star_MSR] = Packed(call'.arg[1], call'.arg[2])
       /\ (call.op = "Star::write_raw" /\ call'.op = "Star::read_raw") =>
             call'.ret = Ok(call.arg)]_vars

C5_Witness ==
    /\ call.op = "Star::read_raw"
    /\ call.ret = Ok(<<27, 65520>>)
    /\ msr[Star_MSR] = Packed(27, 65520)

\* C6: Efer::write(F) on the raw value old leaves (old AND NOT named_mask) OR F.
C6_MaskedWrite ==
    [][call'.op = "Efer::write" =>
          msr'[Efer_MSR] = (msr[Efer_MSR] \ NamedMask) \cup call'.arg]_vars

C6_Witness ==
    /\ call.op = "Efer::write"
    /\ call.arg = {0}
    /\ msr[Efer_MSR] = {0} \cup (32..63)

\* C7: Efer::update(f) on the raw value old leaves
\* (old AND NOT named_mask) OR f(old AND named_mask).
C7_Update ==
    [][call'.op = "Efer::update" =>
          msr'[Efer_MSR] =
              (msr[Efer_MSR] \ NamedMask) \cup Apply(call'.arg, msr[Efer_MSR] \cap NamedMask)]_vars

\* 0xFFFF_FFFF_0000_0101 after update(insert bit 0)
C7_Witness ==
    /\ call.op = "Efer::update"
    /\ call.arg = [kind |-> "insert", flags |-> {0}]
    /\ msr[Efer_MSR] = {0, 8} \cup (32..63)

HasUndefinedBit(v) == \E b \in v : b \notin RFlags_all

C9_ReservedBitsKept ==
    [][msr'[Efer_MSR] \ NamedMask = msr[Efer_MSR] \ NamedMask]_vars

\* two writes pending, the first on a read that a finished write has outdated
C9_Witness ==
    /\ pc[1] = "write_raw"
    /\ pc[2] = "write_raw"
    /\ local[1].old_value # msr[Efer_MSR]
    /\ local[2].old_value = msr[Efer_MSR]
    /\ msr[Efer_MSR] \ NamedMask # {}

\* C10: once a Star::write has succeeded, the register has bits 0-31 zero
\* and Star::read returns the arguments of the last successful write, which
\* satisfy the four Star checks.
C10_ValidatedPathKeepsValid ==
    last_ok # <<>> =>
        /\ \A b \in msr[Star_MSR] : b >= 32
        /\ Star_read(msr, overflow_checks) = Ok(last_ok)
        /\ FourChecks(last_ok)

====
